---------------------------- MODULE Spec2Model ----------------------------
(***************************************************************************)
(* Model of the MAX32650 UART platform driver                             *)
(* (drivers/platform/maxim/max32650/maxim_uart.c).                        *)
(*                                                                         *)
(* One caller context runs the driver's operations step by step; the      *)
(* UART interrupt runs to completion between any two caller steps.  The   *)
(* vendor hardware layer (the MXC_UART calls) is the environment: it keeps *)
(* a pointer to the request structure it was handed and moves bytes as    *)
(* that structure describes.                                               *)
(***************************************************************************)
EXTENDS Integers, Sequences, FiniteSets, TLC

(***************************************************************************)
(* Bounds of the model.                                                    *)
(***************************************************************************)
\* Slots of the byte queue's ring; one slot stays unused, so the queue
\* holds FifoSlots - 1 bytes (256 slots in the reference behaviour).
FifoSlots == 3
\* Bytes the hardware receives in one behaviour, over all ports.
MaxArrivals == 3
\* Calls of the driver the caller makes in one behaviour.
MaxCalls == 3
\* Longest buffer a caller passes to read and to the non-blocking calls.
MaxLen == 2
\* Longest buffer a caller passes to the blocking write.
MaxWrite == 4
\* Depth of the hardware transmit FIFO (MXC_UART_FIFO_DEPTH).
FifoDepth == 2

\* errno values the driver returns (negated).
EIO == 5
EAGAIN == 11
ENOMEM == 12
EBUSY == 16
EINVAL == 22

\* The UART ports of the model (two of the MXC_UART_INSTANCES), and the
\* ports the caller of Spec uses.
Ids == {0, 1}
Ports == {0}
Bytes == {1, 2}
Slots == 0 .. (FifoSlots - 1)
FifoCap == FifoSlots - 1
Min(a, b) == IF a < b THEN a ELSE b

VARIABLES
    uart_irq_state,  \* the per-port request structures (mxc_uart_req_t)
    is_callback,     \* TRUE while a completion callback runs
    c,               \* the one-byte scratch buffer of the refill loop
    AsyncRequests,   \* hardware layer: the port has a request in flight
    hw_on,           \* hardware layer: the peripheral is initialised
    mem,             \* heap objects made by init, per port
    handle,          \* the caller's handle output (*desc), per port
    async,           \* the live descriptor has a byte queue (rx_fifo)
    rx_fifo,         \* the byte queue of the port's descriptor
    irq,             \* interrupt controller: handler registered, line enabled
    pc,              \* the caller's position
    cur,             \* the caller's current operation and its arguments
    i,               \* read: loop index; write: transfered
    left,            \* write: bytes_number still to send
    block_size,      \* write: the chunk size
    ret,             \* the value the current operation returned
    ubuf,            \* the caller's buffer of a blocking read
    g                \* history of the run (not program state)

vars == <<uart_irq_state, is_callback, c, AsyncRequests, hw_on, mem, handle,
          async, rx_fifo, irq, pc, cur, i, left, block_size, ret, ubuf, g>>

drv == <<uart_irq_state, is_callback, c, AsyncRequests, hw_on, mem, handle,
         async, rx_fifo, irq>>

(***************************************************************************)
(* The request structure.                                                  *)
(***************************************************************************)
NoReq == [rxData |-> "NULL", rxLen |-> 0, txData |-> "NULL", txLen |-> 0,
          rxCnt |-> 0, txCnt |-> 0, callback |-> "NULL"]

(***************************************************************************)
(* ByteQueue (no_os_lf256fifo): a ring of FifoSlots bytes with a write    *)
(* index fempty and a read index ffilled; empty when they are equal, full *)
(* when the write index is one slot behind the read index.                *)
(***************************************************************************)
NewFifo == [data |-> [s \in Slots |-> 0], fempty |-> 0, ffilled |-> 0]

lf256fifo_is_empty(f) == f.fempty = f.ffilled

lf256fifo_is_full(f) == (f.fempty + 1) % FifoSlots = f.ffilled

\* push: fails (queue unchanged) when full.
lf256fifo_write(f, b) ==
    IF lf256fifo_is_full(f) THEN f
    ELSE [f EXCEPT !.data[f.fempty] = b, !.fempty = (f.fempty + 1) % FifoSlots]

FifoLen(f) == (f.fempty - f.ffilled + FifoSlots) % FifoSlots

\* The queued bytes, oldest first.
FifoSeq(f) == [k \in 1 .. FifoLen(f) |-> f.data[(f.ffilled + k - 1) % FifoSlots]]

(***************************************************************************)
(* max_uart_read_nonblocking / max_uart_write_nonblocking.                 *)
(* Buffers are named, not held: "c" is the scratch byte, "nbuf" a buffer   *)
(* of the caller.                                                          *)
(***************************************************************************)
NbSteps == 6

\* The k-th field assignment of a submission, in the order of the code.
NbAssign(op, k, st, data, n) ==
    IF op = "read_nb"
    THEN CASE k = 1 -> [st EXCEPT !.rxData = data]
           [] k = 2 -> [st EXCEPT !.rxLen = n]
           [] k = 3 -> [st EXCEPT !.txData = "NULL"]
           [] k = 4 -> [st EXCEPT !.txLen = 0]
           [] k = 5 -> [st EXCEPT !.rxCnt = 0]
           [] OTHER -> [st EXCEPT !.callback = "max_uart_callback"]
    ELSE CASE k = 1 -> [st EXCEPT !.txData = data]
           [] k = 2 -> [st EXCEPT !.txLen = n]
           [] k = 3 -> [st EXCEPT !.rxData = "NULL"]
           [] k = 4 -> [st EXCEPT !.rxLen = 0]
           [] k = 5 -> [st EXCEPT !.txCnt = 0]
           [] OTHER -> [st EXCEPT !.callback = "max_uart_callback"]

RECURSIVE NbStoreFrom(_, _, _, _, _)
NbStoreFrom(op, k, st, data, n) ==
    IF k > NbSteps THEN st
    ELSE NbStoreFrom(op, k + 1, NbAssign(op, k, st, data, n), data, n)

\* Mutant: only the buffer is recorded, the lengths and counts are not.
NbStore_First(op, st, data, n) == NbAssign(op, 1, st, data, n)

\* All the field assignments of one submission.
NbStore(op, st, data, n) == NbStoreFrom(op, 1, st, data, n)

\* Mutant: the test of is_callback inverted.
NbCallsHw_Inverted(isCb) == isCb

\* Whether the submission asks the hardware layer to begin the transfer.
NbCallsHw(isCb) == ~isCb

\* Mutant: the hardware layer's E_BUSY is not looked at.
NbRet_NoBusy(called, hwret) == 0

\* The submission's return value, from the hardware layer's answer.
NbRet(called, hwret) == IF called /\ hwret = "E_BUSY" THEN -EBUSY ELSE 0

(***************************************************************************)
(* The hardware layer.                                                     *)
(***************************************************************************)
\* MXC_UART_TransactionAsync: refuses while the port has a request in
\* flight, and otherwise begins the transfer.
MXC_UART_TransactionAsync(inflight) == IF inflight THEN "E_BUSY" ELSE "E_SUCCESS"

\* The request as the hardware layer starts on it: both counts from zero.
Begin(st) == [st EXCEPT !.rxCnt = 0, !.txCnt = 0]

\* A request has bytes left to move.
Pending(st) == st.rxCnt < st.rxLen \/ st.txCnt < st.txLen

(***************************************************************************)
(* The receive-completion handler.                                         *)
(***************************************************************************)
\* Mutant: a full queue gives up its oldest byte to take the new one.
uart_rx_callback_Overwrite(fifo, cval, st) ==
    LET room == IF lf256fifo_is_full(fifo)
                THEN [fifo EXCEPT !.ffilled = (@ + 1) % FifoSlots]
                ELSE fifo
    IN  [fifo |-> lf256fifo_write(room, cval),
         st   |-> NbStore("read_nb", st, "c", 1),
         ret  |-> NbRet(NbCallsHw(TRUE), "E_SUCCESS")]

\* uart_rx_callback: push the scratch byte, then submit the next one-byte
\* receive (from inside the callback: the request is only recorded).
uart_rx_callback(fifo, cval, st) ==
    [fifo |-> lf256fifo_write(fifo, cval),
     st   |-> NbStore("read_nb", st, "c", 1),
     ret  |-> NbRet(NbCallsHw(TRUE), "E_SUCCESS")]

\* max_uart_callback, the completion callback every request carries, runs
\* the handler registered for the port's receive-complete event.
CompletionRuns(id, st) ==
    /\ st.callback = "max_uart_callback"
    /\ st.rxLen > 0
    /\ irq[id].registered
    /\ irq[id].enabled

\* The outcome of the interrupt of port id that finds request st complete,
\* with cval in the scratch byte.  The handler runs with is_callback set;
\* the request stays in flight when the handler recorded a new transfer,
\* and the port falls idle otherwise.
Completed(id, st, cval) ==
    LET runs == CompletionRuns(id, st)
        live == irq[id].ctx = "live"
        cb   == uart_rx_callback(rx_fifo[id], cval, st)
        st2  == IF runs THEN cb.st ELSE st
    IN  [st     |-> st2,
         fifo   |-> IF runs /\ live THEN cb.fifo ELSE rx_fifo[id],
         flight |-> Pending(st2),
         ran    |-> runs,
         cval   |-> cval,
         pushed |-> runs /\ live /\ cb.fifo # rx_fifo[id]]

\* The outcome of an interrupt that leaves request st in flight.
Progress(id, st, cval) ==
    [st |-> st, fifo |-> rx_fifo[id], flight |-> TRUE, ran |-> FALSE,
     cval |-> cval, pushed |-> FALSE]

Isr(id, st, cval) ==
    IF Pending(st) THEN Progress(id, st, cval) ELSE Completed(id, st, cval)

\* History kept by an interrupt of port id with outcome r.
IsrHist(id, r) ==
    [g EXCEPT
       !.pushed[id] = IF r.pushed THEN Append(@, r.cval) ELSE @,
       !.dropped[id] = @ \/ (r.ran /\ ~r.pushed),
       !.multi[id] = @ \/ ((~r.flight \/ r.ran) /\ uart_irq_state[id].rxLen > 1),
       !.isr = @ \/ (pc # "idle" /\ cur.id = id),
       !.sinceAccept[id] = @ /\ r.flight /\ ~r.ran]

\* The hardware receives a byte on port id: the interrupt stores it where
\* the request in flight says, and runs the completion when the request
\* has nothing left to move.  The k-th byte received in a behaviour has the
\* value k, so that every loss, repetition or reordering of bytes shows.
HwRxByte(id) ==
    LET st   == uart_irq_state[id]
        b    == g.narr + 1
        cval == IF st.rxData = "c" /\ st.rxCnt = 0 THEN b ELSE c
        r    == Isr(id, [st EXCEPT !.rxCnt = @ + 1], cval)
        h    == IsrHist(id, r)
    IN  /\ hw_on[id]
        /\ AsyncRequests[id]
        /\ st.rxCnt < st.rxLen
        /\ g.narr < MaxArrivals
        /\ c' = cval
        /\ uart_irq_state' = [uart_irq_state EXCEPT ![id] = r.st]
        /\ rx_fifo' = [rx_fifo EXCEPT ![id] = r.fifo]
        /\ AsyncRequests' = [AsyncRequests EXCEPT ![id] = r.flight]
        /\ is_callback' = FALSE
        /\ g' = [h EXCEPT !.narr = @ + 1, !.arrived[id] = Append(@, b)]
        /\ UNCHANGED <<hw_on, mem, handle, async, irq, pc, cur, i, left,
                       block_size, ret, ubuf>>

\* The hardware sends one byte of the request in flight on port id.
HwTxByte(id) ==
    LET st == uart_irq_state[id]
        r  == Isr(id, [st EXCEPT !.txCnt = @ + 1], c)
    IN  /\ hw_on[id]
        /\ AsyncRequests[id]
        /\ st.txCnt < st.txLen
        /\ uart_irq_state' = [uart_irq_state EXCEPT ![id] = r.st]
        /\ rx_fifo' = [rx_fifo EXCEPT ![id] = r.fifo]
        /\ AsyncRequests' = [AsyncRequests EXCEPT ![id] = r.flight]
        /\ is_callback' = FALSE
        /\ g' = IsrHist(id, r)
        /\ UNCHANGED <<c, hw_on, mem, handle, async, irq, pc, cur, i, left,
                       block_size, ret, ubuf>>

(***************************************************************************)
(* max_uart_init.                                                          *)
(***************************************************************************)
\* The configuration the caller passes: valid, or with one field out of
\* its enumeration.
Cfgs == {"ok", "bad_parity", "bad_size", "bad_stop", "bad_flow"}

\* The call of a collaborator that fails, if any.
HwCfgFails == {"pins_config", "SetDataSize", "SetParity", "SetStopBits", "SetFlowCtrl"}
AsyncFails == {"lf256fifo_init", "irq_ctrl_init", "register_callback", "irq_enable"}
Fails == {"none", "calloc_desc", "calloc_max", "MXC_UART_Init"}
             \cup HwCfgFails \cup AsyncFails

\* Where init leaves its straight line: the label it jumps to and the
\* value it returns (a collaborator's own error code stands as -ENOMEM or
\* -EINVAL).  nbr: what the first one-byte receive submission returns.
InitExit(cfg, arx, fail, nbr) ==
    CASE fail = "calloc_desc"    -> [label |-> "return", ret |-> -ENOMEM]
      [] fail = "calloc_max"     -> [label |-> "error_desc", ret |-> -ENOMEM]
      [] cfg # "ok"              -> [label |-> "error_max", ret |-> -EINVAL]
      [] fail = "MXC_UART_Init"  -> [label |-> "error_max", ret |-> -EINVAL]
      [] fail \in HwCfgFails     -> [label |-> "error_uart", ret |-> -EINVAL]
      [] ~arx                    -> [label |-> "ok", ret |-> 0]
      [] fail = "lf256fifo_init" -> [label |-> "error_uart", ret |-> -ENOMEM]
      [] fail = "irq_ctrl_init"  -> [label |-> "error_uart", ret |-> -ENOMEM]
      [] fail = "register_callback" -> [label |-> "error_nvic", ret |-> -EINVAL]
      [] fail = "irq_enable"     -> [label |-> "error_nvic", ret |-> -EINVAL]
      [] nbr # 0                 -> [label |-> "error_nvic", ret |-> nbr]
      [] OTHER                   -> [label |-> "ok", ret |-> 0]

\* How far the straight line got before the exit.
InitReached(cfg, arx, fail) ==
    LET cfgOk == fail \notin {"calloc_desc", "calloc_max"} /\ cfg = "ok"
        hwOk  == cfgOk /\ fail # "MXC_UART_Init"
        set   == hwOk /\ fail \notin HwCfgFails
        fifo  == set /\ arx /\ fail # "lf256fifo_init"
        nvic  == fifo /\ fail # "irq_ctrl_init"
        reg   == nvic /\ fail # "register_callback"
        en    == reg /\ fail # "irq_enable"
    IN  [desc   |-> fail # "calloc_desc",
         extra  |-> fail \notin {"calloc_desc", "calloc_max"},
         hwinit |-> hwOk,
         handle |-> set,
         fifo   |-> fifo,
         nvic   |-> nvic,
         reg    |-> reg,
         enable |-> en,
         submit |-> en]

\* Mutant: error_max releases the descriptor only.
Unwinds_MaxKept(label) ==
    [nvic  |-> label = "error_nvic",
     uart  |-> label \in {"error_nvic", "error_uart"},
     max   |-> label \in {"error_nvic", "error_uart"},
     desc  |-> label \in {"error_nvic", "error_uart", "error_max", "error_desc"}]

\* The cleanup each label runs, falling through to the labels below it.
Unwinds(label) ==
    [nvic  |-> label = "error_nvic",
     uart  |-> label \in {"error_nvic", "error_uart"},
     max   |-> label \in {"error_nvic", "error_uart", "error_max"},
     desc  |-> label \in {"error_nvic", "error_uart", "error_max", "error_desc"}]

\* no_os_irq_ctrl_remove: the controller is released, its handler is
\* deregistered and its line disabled.
no_os_irq_ctrl_remove(q) == [registered |-> FALSE, enabled |-> FALSE, ctx |-> "none"]

\* What decided the way init went: a failed allocation comes before the
\* validation of the configuration, and that before every other call.
InitCause(cfg, fail) ==
    IF fail \in {"calloc_desc", "calloc_max"} THEN fail
    ELSE IF cfg # "ok" THEN cfg
    ELSE fail

max_uart_init(id, cfg, arx, fail) ==
    LET busy == AsyncRequests[id]
        hwr  == MXC_UART_TransactionAsync(busy)
        nbr  == NbRet(NbCallsHw(is_callback), hwr)
        x    == InitExit(cfg, arx, fail, nbr)
        at   == InitReached(cfg, arx, fail)
        u    == Unwinds(x.label)
        q1   == [registered |-> irq[id].registered \/ at.reg,
                 enabled    |-> irq[id].enabled \/ at.enable,
                 ctx        |-> IF at.reg THEN "live" ELSE irq[id].ctx]
    IN  /\ pc = "idle"
        /\ g.calls < MaxCalls
        /\ mem[id].desc # "alloc"
        /\ pc' = "done"
        /\ cur' = [op |-> "init", id |-> id, data |-> InitCause(cfg, fail),
                   n |-> IF arx THEN 1 ELSE 0]
        /\ ret' = x.ret
        /\ mem' = [mem EXCEPT ![id] =
                     [desc  |-> IF ~at.desc THEN "none" ELSE IF u.desc THEN "freed" ELSE "alloc",
                      extra |-> IF ~at.extra THEN "none" ELSE IF u.max THEN "freed" ELSE "alloc",
                      fifo  |-> IF at.fifo THEN "alloc" ELSE "none",
                      nvic  |-> IF ~at.nvic THEN "none" ELSE IF u.nvic THEN "freed" ELSE "alloc"]]
        /\ handle' = [handle EXCEPT ![id] = IF at.handle THEN "desc" ELSE @]
        /\ hw_on' = [hw_on EXCEPT ![id] = IF u.uart THEN FALSE ELSE (@ \/ at.hwinit)]
        /\ irq' = [irq EXCEPT ![id] = IF u.nvic THEN no_os_irq_ctrl_remove(q1) ELSE q1]
        /\ async' = [async EXCEPT ![id] = x.label = "ok" /\ arx]
        /\ rx_fifo' = [rx_fifo EXCEPT ![id] = IF at.fifo THEN NewFifo ELSE @]
        /\ uart_irq_state' = [uart_irq_state EXCEPT ![id] =
                                IF ~at.submit THEN @
                                ELSE IF hwr = "E_SUCCESS"
                                     THEN Begin(NbStore("read_nb", @, "c", 1))
                                     ELSE NbStore("read_nb", @, "c", 1)]
        /\ AsyncRequests' = [AsyncRequests EXCEPT ![id] =
                                @ \/ (at.submit /\ hwr = "E_SUCCESS")]
        /\ g' = [g EXCEPT
                   !.calls = @ + 1,
                   !.arrived[id] = <<>>, !.pushed[id] = <<>>, !.delivered[id] = <<>>,
                   !.dropped[id] = FALSE, !.multi[id] = FALSE,
                   !.sinceAccept[id] = at.submit /\ nbr = 0]
        /\ UNCHANGED <<is_callback, c, i, left, block_size, ubuf>>

(***************************************************************************)
(* max_uart_remove.                                                        *)
(***************************************************************************)
\* Mutant: the handle is not tested.
RemoveEffect_NoCheck(desc, on, m) ==
    [ret |-> 0, hw_on |-> FALSE, mem |-> [m EXCEPT !.extra = "freed", !.desc = "freed"]]

\* What remove returns and does to the peripheral and the heap objects of
\* the port, for a null or a live handle.
RemoveEffect(desc, on, m) ==
    IF desc = "NULL"
    THEN [ret |-> -EINVAL, hw_on |-> on, mem |-> m]
    ELSE [ret |-> 0, hw_on |-> FALSE,
          mem |-> [m EXCEPT !.extra = "freed", !.desc = "freed"]]

max_uart_remove(id) ==
    LET r == RemoveEffect("desc", hw_on[id], mem[id]) IN
    /\ pc = "idle"
    /\ g.calls < MaxCalls
    /\ mem[id].desc = "alloc"
    /\ pc' = "done"
    /\ cur' = [op |-> "remove", id |-> id, data |-> "desc", n |-> 0]
    /\ ret' = r.ret
    /\ hw_on' = [hw_on EXCEPT ![id] = r.hw_on]
    /\ mem' = [mem EXCEPT ![id] = r.mem]
    /\ async' = [async EXCEPT ![id] = FALSE]
    /\ irq' = [irq EXCEPT ![id].ctx = IF @ = "live" THEN "stale" ELSE @]
    /\ g' = [g EXCEPT !.calls = @ + 1]
    /\ UNCHANGED <<uart_irq_state, is_callback, c, AsyncRequests, handle, rx_fifo,
                   i, left, block_size, ubuf>>

\* remove of a null handle.
max_uart_remove_null ==
    LET r == RemoveEffect("NULL", hw_on[0], mem[0]) IN
    /\ pc = "idle"
    /\ g.calls < MaxCalls
    /\ pc' = "done"
    /\ cur' = [op |-> "remove", id |-> 0, data |-> "NULL", n |-> 0]
    /\ ret' = r.ret
    /\ hw_on' = [hw_on EXCEPT ![0] = r.hw_on]
    /\ mem' = [mem EXCEPT ![0] = r.mem]
    /\ g' = [g EXCEPT !.calls = @ + 1]
    /\ UNCHANGED <<uart_irq_state, is_callback, c, AsyncRequests, handle, async,
                   rx_fifo, irq, i, left, block_size, ubuf>>

(***************************************************************************)
(* The caller's operations.                                                *)
(***************************************************************************)
NoOp == [op |-> "none", id |-> 0, data |-> "NULL", n |-> 0]
NoBuf == [k \in 1 .. MaxLen |-> 0]
Live(id) == mem[id].desc = "alloc" /\ handle[id] = "desc"
\* Mutant: a length of zero is let through.
BadArgs_NoLen(data, n) == data = "NULL"
\* The argument check the four transfer operations start with.
BadArgs(data, n) == data = "NULL" \/ n = 0

\* What each call starts its history with.
Called(id) ==
    [g EXCEPT !.calls = @ + 1,
              !.isr = FALSE,
              !.snap = uart_irq_state[id],
              !.idle0 = ~AsyncRequests[id],
              !.q0 = IF async[id] THEN FifoSeq(rx_fifo[id]) ELSE <<>>,
              !.p0 = Len(g.pushed[id]),
              !.hw = FALSE, !.wire = <<>>, !.ready = FALSE, !.fault = FALSE,
              !.short = FALSE]

\* read_nonblocking / write_nonblocking: the argument check.
CallNb(op, id, data, n) ==
    /\ pc = "idle"
    /\ g.calls < MaxCalls
    /\ Live(id)
    /\ cur' = [op |-> op, id |-> id, data |-> data, n |-> n]
    /\ IF BadArgs(data, n)
       THEN /\ pc' = "done"
            /\ ret' = -EINVAL
            /\ i' = i
            /\ g' = Called(id)
       ELSE /\ pc' = "nb_store"
            /\ ret' = ret
            /\ i' = 1
            /\ g' = Called(id)
    /\ UNCHANGED <<drv, left, block_size, ubuf>>

\* One field assignment of the request structure.
NbStep ==
    LET id == cur.id IN
    /\ pc = "nb_store"
    /\ uart_irq_state' = [uart_irq_state EXCEPT ![id] =
                            NbAssign(cur.op, i, @, cur.data, cur.n)]
    /\ i' = i + 1
    /\ pc' = IF i = NbSteps THEN "nb_hw" ELSE "nb_store"
    /\ UNCHANGED <<is_callback, c, AsyncRequests, hw_on, mem, handle, async,
                   rx_fifo, irq, cur, left, block_size, ret, ubuf, g>>

\* The call of the hardware layer, and the return.
NbHw ==
    LET id     == cur.id
        called == NbCallsHw(is_callback)
        hwr    == MXC_UART_TransactionAsync(AsyncRequests[id])
        begun  == called /\ hwr = "E_SUCCESS"
        r      == NbRet(called, hwr)
    IN  /\ pc = "nb_hw"
        /\ AsyncRequests' = [AsyncRequests EXCEPT ![id] = @ \/ begun]
        /\ uart_irq_state' = [uart_irq_state EXCEPT ![id] = IF begun THEN Begin(@) ELSE @]
        /\ ret' = r
        /\ pc' = "done"
        /\ g' = [g EXCEPT !.hw = called, !.sinceAccept[id] = @ \/ r = 0]
        /\ UNCHANGED <<is_callback, c, hw_on, mem, handle, async,
                       rx_fifo, irq, cur, i, left, block_size, ubuf>>

\* The caller takes the result; its locals go away.
Return ==
    /\ pc = "done"
    /\ pc' = "idle"
    /\ cur' = NoOp
    /\ i' = 0
    /\ left' = 0
    /\ block_size' = 0
    /\ ret' = 0
    /\ ubuf' = NoBuf
    /\ g' = [g EXCEPT !.isr = FALSE, !.snap = NoReq, !.idle0 = FALSE, !.q0 = <<>>,
                      !.p0 = 0, !.hw = FALSE, !.wire = <<>>, !.ready = FALSE,
                      !.fault = FALSE, !.short = FALSE]
    /\ UNCHANGED drv

(***************************************************************************)
(* max_uart_read.                                                          *)
(***************************************************************************)
\* Mutant: an empty queue is reported as zero bytes read.
ReadRet_Zero(k) == k

\* What the drain loop returns when the queue runs empty after k bytes.
ReadRet(k) == IF k # 0 THEN k ELSE -EAGAIN

\* Mutant: every byte is stored in data[0].
ReadSlot_First(k) == 1

\* Where read stores the k-th byte it pops (data[k], counted from 0).
ReadSlot(k) == k + 1

CallRead(id, data, n) ==
    /\ pc = "idle"
    /\ g.calls < MaxCalls
    /\ Live(id)
    /\ cur' = [op |-> "read", id |-> id, data |-> data, n |-> n]
    /\ g' = Called(id)
    /\ i' = 0
    /\ IF BadArgs(data, n)
       THEN pc' = "done" /\ ret' = -EINVAL
       ELSE pc' = (IF async[id] THEN "rd_loop" ELSE "rd_hw") /\ ret' = ret
    /\ UNCHANGED <<drv, left, block_size, ubuf>>

\* The bytes a read that returned r handed to its caller.
Returned(r) == IF r > 0 THEN SubSeq(ubuf, 1, r) ELSE <<>>

\* The loop test, and lf256fifo_read's test for an empty queue.
RdLoop ==
    LET f == rx_fifo[cur.id] IN
    /\ pc = "rd_loop"
    /\ IF i >= cur.n
       THEN pc' = "done" /\ ret' = i
       ELSE IF lf256fifo_is_empty(f)
            THEN pc' = "done" /\ ret' = ReadRet(i)
            ELSE pc' = "rd_copy" /\ ret' = ret
    /\ g' = IF pc' = "done"
            THEN [g EXCEPT !.delivered[cur.id] = @ \o Returned(ret')]
            ELSE g
    /\ UNCHANGED <<drv, cur, i, left, block_size, ubuf>>

\* lf256fifo_read copies the oldest byte out ...
RdCopy ==
    LET f == rx_fifo[cur.id] IN
    /\ pc = "rd_copy"
    /\ ubuf' = [ubuf EXCEPT ![ReadSlot(i)] = f.data[f.ffilled]]
    /\ pc' = "rd_inc"
    /\ UNCHANGED <<drv, cur, i, left, block_size, ret, g>>

\* ... and then advances the read index.
RdInc ==
    LET id == cur.id IN
    /\ pc = "rd_inc"
    /\ rx_fifo' = [rx_fifo EXCEPT ![id].ffilled = (@ + 1) % FifoSlots]
    /\ i' = i + 1
    /\ pc' = "rd_loop"
    /\ UNCHANGED <<uart_irq_state, is_callback, c, AsyncRequests, hw_on, mem,
                   handle, async, irq, cur, left, block_size, ret, ubuf, g>>

\* Without a byte queue: MXC_UART_Read, the hardware's own blocking read.
RdHw ==
    /\ pc = "rd_hw"
    /\ pc' = "done"
    /\ g' = [g EXCEPT !.hw = TRUE]
    /\ \E ok \in BOOLEAN, b \in Bytes :
          IF ok
          THEN /\ ret' = cur.n
               /\ ubuf' = [k \in 1 .. MaxLen |-> IF k <= cur.n THEN b ELSE ubuf[k]]
          ELSE /\ ret' = -EIO
               /\ ubuf' = ubuf
    /\ UNCHANGED <<drv, cur, i, left, block_size>>

(***************************************************************************)
(* max_uart_write.                                                         *)
(***************************************************************************)
\* The bytes the caller sends: data[k] for k = 0 .. MaxWrite - 1.
TxData(k) == k + 1

\* The chunk size of the next hardware write.
BlockSize(bytes_number) == Min(FifoDepth, bytes_number)

\* Where the loop goes after polling the status register.
AfterPoll(tx_empty) == IF tx_empty THEN "wr_write" ELSE "wr_poll"

\* Mutant: the chunk size asked for is added, not the size taken.
Advance_Requested(transfered, accepted, requested) == transfered + requested

\* transfered after a hardware write that took `accepted` of the
\* `requested` bytes.
Advance(transfered, accepted, requested) == transfered + accepted

\* Mutant: the hardware write's result is not looked at.
AfterWrite_IgnoreFault(hwret) == "wr_top"

\* What write does after a hardware write returned hwret.
AfterWrite(hwret) == IF hwret # "E_SUCCESS" THEN "fault" ELSE "wr_top"

CallWrite(id, data, n) ==
    /\ pc = "idle"
    /\ g.calls < MaxCalls
    /\ Live(id)
    /\ cur' = [op |-> "write", id |-> id, data |-> data, n |-> n]
    /\ g' = Called(id)
    /\ i' = 0
    /\ IF BadArgs(data, n)
       THEN pc' = "done" /\ ret' = -EINVAL /\ left' = left
       ELSE pc' = "wr_top" /\ ret' = ret /\ left' = n
    /\ UNCHANGED <<drv, block_size, ubuf>>

\* while (bytes_number): the chunk size, or the return.
WrTop ==
    /\ pc = "wr_top"
    /\ IF left = 0
       THEN pc' = "done" /\ ret' = i /\ block_size' = block_size
       ELSE pc' = "wr_poll" /\ ret' = ret /\ block_size' = BlockSize(left)
    /\ UNCHANGED <<drv, cur, i, left, ubuf, g>>

\* One poll of the transmit-empty status flag.
WrPoll ==
    /\ pc = "wr_poll"
    /\ \E tx_empty \in BOOLEAN :
          /\ pc' = AfterPoll(tx_empty)
          /\ g' = [g EXCEPT !.hw = TRUE, !.ready = tx_empty]
    /\ UNCHANGED <<drv, cur, i, left, block_size, ret, ubuf>>

\* MXC_UART_Write takes 0 .. block_size bytes and reports success or a
\* fault.
WrWrite ==
    /\ pc = "wr_write"
    /\ \E accepted \in 0 .. block_size, hwret \in {"E_SUCCESS", "E_COMM_ERR"} :
          LET t == Advance(i, accepted, block_size) IN
          /\ i' = t
          /\ left' = left - accepted
          /\ block_size' = accepted
          /\ g' = [g EXCEPT
                     !.wire = @ \o [k \in 1 .. accepted |-> TxData(i + k - 1)],
                     !.ready = FALSE,
                     !.short = @ \/ accepted < block_size,
                     !.fault = hwret # "E_SUCCESS"]
          /\ IF AfterWrite(hwret) = "fault"
             THEN pc' = "done" /\ ret' = -EIO
             ELSE pc' = "wr_top" /\ ret' = ret
    /\ UNCHANGED <<drv, cur, ubuf>>

(***************************************************************************)
(* The state machine.                                                      *)
(***************************************************************************)
NoHist ==
    [narr |-> 0, calls |-> 0,
     arrived |-> [id \in Ids |-> <<>>],
     pushed |-> [id \in Ids |-> <<>>],
     delivered |-> [id \in Ids |-> <<>>],
     dropped |-> [id \in Ids |-> FALSE],
     multi |-> [id \in Ids |-> FALSE],
     sinceAccept |-> [id \in Ids |-> FALSE],
     isr |-> FALSE, snap |-> NoReq, idle0 |-> FALSE, q0 |-> <<>>, p0 |-> 0,
     hw |-> FALSE, wire |-> <<>>, ready |-> FALSE, fault |-> FALSE, short |-> FALSE]

Init ==
    /\ uart_irq_state = [id \in Ids |-> NoReq]
    /\ is_callback = FALSE
    /\ c = 0
    /\ AsyncRequests = [id \in Ids |-> FALSE]
    /\ hw_on = [id \in Ids |-> FALSE]
    /\ mem = [id \in Ids |-> [desc |-> "none", extra |-> "none",
                              fifo |-> "none", nvic |-> "none"]]
    /\ handle = [id \in Ids |-> "NULL"]
    /\ async = [id \in Ids |-> FALSE]
    /\ rx_fifo = [id \in Ids |-> NewFifo]
    /\ irq = [id \in Ids |-> [registered |-> FALSE, enabled |-> FALSE, ctx |-> "none"]]
    /\ pc = "idle"
    /\ cur = NoOp
    /\ i = 0
    /\ left = 0
    /\ block_size = 0
    /\ ret = 0
    /\ ubuf = NoBuf
    /\ g = NoHist

Lens == 0 .. MaxLen

Next ==
    \/ \E id \in Ports, cfg \in Cfgs, arx \in BOOLEAN, fail \in Fails :
          max_uart_init(id, cfg, arx, fail)
    \/ \E id \in Ports : max_uart_remove(id)
    \/ max_uart_remove_null
    \/ \E op \in {"read_nb", "write_nb"}, id \in Ports, data \in {"NULL", "nbuf"}, n \in Lens :
          CallNb(op, id, data, n)
    \/ NbStep
    \/ NbHw
    \/ \E id \in Ports, data \in {"NULL", "ubuf"}, n \in Lens : CallRead(id, data, n)
    \/ RdLoop
    \/ RdCopy
    \/ RdInc
    \/ RdHw
    \* write's argument check; the loop of write is in SpecWrite
    \/ \E id \in Ports, data \in {"NULL", "wbuf"}, n \in Lens :
          BadArgs(data, n) /\ CallWrite(id, data, n)
    \/ Return
    \/ \E id \in Ids : HwRxByte(id)
    \/ \E id \in Ids : HwTxByte(id)

Spec == Init /\ [][Next]_vars

(***************************************************************************)
(* The blocking write alone.  It reads and writes none of the driver's     *)
(* shared state, so it is checked from the state in which port 0 was       *)
(* initialised without a byte queue.                                       *)
(***************************************************************************)
InitWrite ==
    /\ uart_irq_state = [id \in Ids |-> NoReq]
    /\ is_callback = FALSE
    /\ c = 0
    /\ AsyncRequests = [id \in Ids |-> FALSE]
    /\ hw_on = [id \in Ids |-> id = 0]
    /\ mem = [id \in Ids |->
                IF id = 0
                THEN [desc |-> "alloc", extra |-> "alloc", fifo |-> "none", nvic |-> "none"]
                ELSE [desc |-> "none", extra |-> "none", fifo |-> "none", nvic |-> "none"]]
    /\ handle = [id \in Ids |-> IF id = 0 THEN "desc" ELSE "NULL"]
    /\ async = [id \in Ids |-> FALSE]
    /\ rx_fifo = [id \in Ids |-> NewFifo]
    /\ irq = [id \in Ids |-> [registered |-> FALSE, enabled |-> FALSE, ctx |-> "none"]]
    /\ pc = "idle"
    /\ cur = NoOp
    /\ i = 0
    /\ left = 0
    /\ block_size = 0
    /\ ret = 0
    /\ ubuf = NoBuf
    /\ g = NoHist

NextWrite ==
    \/ \E id \in Ports, data \in {"NULL", "wbuf"}, n \in 0 .. MaxWrite :
          CallWrite(id, data, n)
    \/ WrTop
    \/ WrPoll
    \/ WrWrite
    \/ Return

SpecWrite == InitWrite /\ [][NextWrite]_vars

(***************************************************************************)
(* The blocking write with the hardware the caller may count on: a poll    *)
(* finds the transmitter ready again and again, and a hardware write that  *)
(* reports no fault takes at least one byte.  The processor keeps          *)
(* executing the loop.                                                     *)
(***************************************************************************)
WrWriteSome == WrWrite /\ (g'.fault \/ i' > i)

NextWriteFair ==
    \/ \E id \in Ports, data \in {"NULL", "wbuf"}, n \in 0 .. MaxWrite :
          CallWrite(id, data, n)
    \/ WrTop
    \/ WrPoll
    \/ WrWriteSome
    \/ Return

SpecWriteFair ==
    /\ InitWrite
    /\ [][NextWriteFair]_vars
    /\ WF_vars(WrTop)
    /\ WF_vars(WrPoll)
    /\ SF_vars(WrPoll /\ g'.ready)
    /\ WF_vars(WrWriteSome)

(***************************************************************************)
(* Two ports with asynchronous receive: both are initialised with a valid  *)
(* configuration, the hardware receives on either, and the caller makes    *)
(* non-blocking submissions on either.                                     *)
(***************************************************************************)
NextTwo ==
    \/ \E id \in Ids : max_uart_init(id, "ok", TRUE, "none")
    \/ \E op \in {"read_nb", "write_nb"}, id \in Ids, n \in 1 .. MaxLen :
          CallNb(op, id, "nbuf", n)
    \/ NbStep
    \/ NbHw
    \/ Return
    \/ \E id \in Ids : HwRxByte(id)
    \/ \E id \in Ids : HwTxByte(id)

SpecTwo == Init /\ [][NextTwo]_vars

(***************************************************************************)
(* Properties.                                                             *)
(***************************************************************************)
NbOps == {"read_nb", "write_nb"}
IsPrefix(s, t) == Len(s) <= Len(t) /\ SubSeq(t, 1, Len(s)) = s

\* The step in which a submission of the caller returns.
NbReturns == pc = "nb_hw" /\ pc' = "done"

\* The interrupt step of port id in which the completion handler runs, and
\* with it the handler's own submission.
HandlerRuns(id) ==
    /\ g'.narr # g.narr
    /\ Len(g'.arrived[id]) # Len(g.arrived[id])
    /\ LET st1 == [uart_irq_state[id] EXCEPT !.rxCnt = @ + 1]
       IN  ~Pending(st1) /\ CompletionRuns(id, st1)

\* C1: a submission of the caller that follows an accepted submission on
\* the same port, with no completion on that port in between, returns
\* -EBUSY.
C1_SecondSubmitBusy ==
    [][NbReturns /\ g.sinceAccept[cur.id] => ret' = -EBUSY]_vars

C1_Witness ==
    /\ pc = "done"
    /\ cur.op = "write_nb"
    /\ g.snap.txLen > 0
    /\ g.sinceAccept[cur.id]
    /\ ~async[cur.id]
    /\ ret = -EBUSY

\* C2: a submission that returns -EBUSY, with no interrupt on the port
\* during the call, leaves every field of the port's request structure as
\* it was at the call.
C2_BusyKeepsDescriptor ==
    (pc = "done" /\ cur.op \in NbOps /\ ret = -EBUSY /\ ~g.isr)
        => uart_irq_state[cur.id] = g.snap

\* C3: on a port with a byte queue, when every byte the hardware received
\* came with a single-byte completion and none was dropped, a read of
\* length N that follows N such completions and that no interrupt preempts
\* returns N and the N bytes the hardware received, in arrival order.
C3_ReadReturnsArrivals ==
    LET id == cur.id
        a  == g.arrived[id]
        d0 == Len(g.delivered[id]) - Len(Returned(ret))
    IN  (/\ pc = "done"
         /\ cur.op = "read"
         /\ async[id]
         /\ ~BadArgs(cur.data, cur.n)
         /\ ~g.isr
         /\ ~g.dropped[id]
         /\ ~g.multi[id]
         /\ Len(g.pushed[id]) = Len(a)
         /\ cur.n <= FifoCap
         /\ cur.n = Len(a) - d0)
        => (ret = cur.n /\ Returned(ret) = SubSeq(a, d0 + 1, Len(a)))

\* C4: on every port, the bytes the reads have returned so far, in order,
\* are a prefix of the bytes the completion handler has pushed so far.
C4_DeliveredPrefixOfPushed ==
    \A id \in Ids : IsPrefix(g.delivered[id], g.pushed[id])

C4_Witness ==
    /\ pc = "done"
    /\ cur.op = "read"
    /\ g.isr
    /\ Len(g.pushed[cur.id]) > g.p0
    /\ ret = FifoCap

\* The bytes of port id that were pushed and not yet popped.
Popped(id) ==
    Len(g.delivered[id])
      + (IF cur.op = "read" /\ cur.id = id /\ pc \in {"rd_loop", "rd_copy", "rd_inc"}
         THEN i ELSE 0)
Undelivered(id) == SubSeq(g.pushed[id], Popped(id) + 1, Len(g.pushed[id]))

\* C5: when the completion handler finds the byte queue full, the byte is
\* dropped and the queue is left as it was; the queue always holds the
\* bytes pushed and not yet read, oldest first, so later reads return them.
C5_FullQueueDrops ==
    /\ [](\A id \in Ids : async[id] => FifoSeq(rx_fifo[id]) = Undelivered(id))
    /\ [][\A id \in Ids :
            (HandlerRuns(id) /\ irq[id].ctx = "live" /\ lf256fifo_is_full(rx_fifo[id]))
               => (rx_fifo'[id] = rx_fifo[id] /\ g'.pushed[id] = g.pushed[id])]_vars

C5_Witness ==
    /\ pc = "done"
    /\ cur.op = "read"
    /\ g.dropped[cur.id]
    /\ Len(g.q0) = FifoCap
    /\ ret = FifoCap

\* C6: when init returns 0 for a configuration with asynchronous receive,
\* the port has a one-byte receive into the scratch byte in flight.
C6_InitLeavesReceiveInFlight ==
    (pc = "done" /\ cur.op = "init" /\ cur.n = 1 /\ ret = 0)
        => LET st == uart_irq_state[cur.id]
           IN  /\ AsyncRequests[cur.id]
               /\ st.rxData = "c" /\ st.rxLen = 1 /\ st.rxCnt = 0
               /\ st.txData = "NULL" /\ st.txLen = 0

C6_Witness == pc = "done" /\ cur.op = "init" /\ cur.n = 1 /\ ret = 0

AsyncStageFailed ==
    /\ pc = "done"
    /\ cur.op = "init"
    /\ cur.n = 1
    /\ ret # 0
    /\ cur.data \in AsyncFails \cup {"none"}

C8_FailedInitUndone ==
    AsyncStageFailed
        => LET id == cur.id
           IN  /\ ~irq[id].enabled
               /\ ~irq[id].registered
               /\ ~hw_on[id]
               /\ \A o \in {"desc", "extra", "fifo", "nvic"} : mem[id][o] # "alloc"
               /\ handle[id] = "NULL"

\* C9: a read on a port with a byte queue holding k bytes, with no push
\* during the read, returns min(k, length) and the oldest bytes in order,
\* leaves the rest queued, returns -EAGAIN exactly when k = 0, and makes no
\* call of the hardware layer.
C9_ReadDrainsQueue ==
    LET id == cur.id
        k  == Len(g.q0)
        m  == Min(k, cur.n)
    IN  (/\ pc = "done"
         /\ cur.op = "read"
         /\ async[id]
         /\ ~BadArgs(cur.data, cur.n)
         /\ Len(g.pushed[id]) = g.p0)
        => /\ ret = (IF k = 0 THEN -EAGAIN ELSE m)
           /\ Returned(ret) = SubSeq(g.q0, 1, m)
           /\ FifoSeq(rx_fifo[id]) = SubSeq(g.q0, m + 1, k)
           /\ ~g.hw

C9_Witness ==
    /\ pc = "done"
    /\ cur.op = "read"
    /\ async[cur.id]
    /\ Len(g.q0) = FifoCap
    /\ cur.n = 1
    /\ ret = 1
    /\ FifoLen(rx_fifo[cur.id]) = FifoCap - 1

\* C10: every hardware write of the blocking write asks for 1 up to
\* FifoDepth bytes and follows a poll that saw the transmitter ready; the
\* bytes the hardware took are always data[0 .. transfered); without a
\* fault the write returns its length.
Sent(n) == [k \in 1 .. n |-> TxData(k - 1)]

TransferOps == {"read", "write", "read_nb", "write_nb"}

C11_BadArgsRejected ==
    (pc = "done" /\ cur.op \in TransferOps /\ (cur.data = "NULL" \/ cur.n = 0) /\ ~g.isr)
        => LET id == cur.id
           IN  /\ ret = -EINVAL
               /\ ~g.hw
               /\ uart_irq_state[id] = g.snap
               /\ AsyncRequests[id] = ~g.idle0
               /\ async[id] => FifoSeq(rx_fifo[id]) = g.q0

C11_Witness ==
    /\ pc = "done"
    /\ cur.op = "write_nb"
    /\ cur.data = "nbuf"
    /\ cur.n = 0
    /\ ret = -EINVAL
    /\ AsyncRequests[cur.id]
    /\ async[cur.id]
    /\ FifoLen(rx_fifo[cur.id]) > 0

\* C12: when remove of a live handle has returned 0, the peripheral is
\* shut down and no object init made for the port is still allocated.
C12_RemoveReleasesAll ==
    (pc = "done" /\ cur.op = "remove" /\ cur.data = "desc" /\ ret = 0)
        => LET id == cur.id
           IN  /\ ~hw_on[id]
               /\ \A o \in {"desc", "extra", "fifo", "nvic"} : mem[id][o] # "alloc"

\* C13: init with a parity, data size, stop bits or flow control outside
\* its enumeration returns -EINVAL, makes no call of the hardware layer or
\* the interrupt layer, leaves nothing allocated and does not write the
\* caller's handle.
BadCfgs == Cfgs \ {"ok"}

InitReturns == pc = "idle" /\ pc' = "done" /\ cur'.op = "init"

C13_BadConfigRejected ==
    [][(InitReturns /\ cur'.data \in BadCfgs)
          => LET id == cur'.id
             IN  /\ ret' = -EINVAL
                 /\ hw_on' = hw_on
                 /\ AsyncRequests' = AsyncRequests
                 /\ uart_irq_state' = uart_irq_state
                 /\ irq' = irq
                 /\ handle' = handle
                 /\ \A o \in {"desc", "extra", "fifo", "nvic"} : mem'[id][o] # "alloc"]_vars

C13_Witness ==
    /\ pc = "done"
    /\ cur.op = "init"
    /\ cur.data = "bad_stop"
    /\ ret = -EINVAL
    /\ mem[cur.id].desc = "freed"
    /\ mem[cur.id].extra = "freed"
    /\ handle[cur.id] = "NULL"

\* C14: remove of a null handle returns -EINVAL, shuts no peripheral down
\* and releases no memory.
C14_RemoveNullRejected ==
    [][(pc = "idle" /\ pc' = "done" /\ cur'.op = "remove" /\ cur'.data = "NULL")
          => (ret' = -EINVAL /\ hw_on' = hw_on /\ mem' = mem /\ irq' = irq)]_vars

C14_Witness ==
    /\ pc = "done"
    /\ cur.op = "remove"
    /\ cur.data = "NULL"
    /\ ret = -EINVAL
    /\ hw_on[0]
    /\ mem[0].desc = "alloc"

\* C15: on a port with a byte queue, every run of the completion handler
\* pushes the byte the hardware just received, or leaves a full queue as it
\* was, and leaves a one-byte receive into the scratch byte in flight, in
\* the interrupt step itself, with no step of the caller.
C15_HandlerPushesAndRefills ==
    [][\A id \in Ids :
          (HandlerRuns(id) /\ async[id] /\ irq[id].ctx = "live")
             => LET st == uart_irq_state'[id]
                    b  == g'.arrived[id][Len(g'.arrived[id])]
                IN  /\ pc' = pc
                    /\ IF lf256fifo_is_full(rx_fifo[id])
                       THEN rx_fifo'[id] = rx_fifo[id]
                       ELSE FifoSeq(rx_fifo'[id]) = Append(FifoSeq(rx_fifo[id]), b)
                    /\ AsyncRequests'[id]
                    /\ st.rxData = "c" /\ st.rxLen = 1 /\ st.rxCnt = 0
                    /\ st.txData = "NULL" /\ st.txLen = 0]_vars

\* C16: when a submission of the caller has made its stores, the request
\* structure's buffers and lengths are all the caller's or all those of the
\* completion handler's one-byte receive, wherever the handler preempted
\* the stores; the scratch byte never goes with a receive length above 1,
\* nor a length above 0 with a null buffer.
CallersRequest(st) ==
    IF cur.op = "read_nb"
    THEN st.rxData = cur.data /\ st.rxLen = cur.n /\ st.txData = "NULL" /\ st.txLen = 0
    ELSE st.txData = cur.data /\ st.txLen = cur.n /\ st.rxData = "NULL" /\ st.rxLen = 0

HandlersRequest(st) ==
    st.rxData = "c" /\ st.rxLen = 1 /\ st.txData = "NULL" /\ st.txLen = 0

C16_SubmissionAtomic ==
    (pc \in {"nb_hw", "done"} /\ cur.op \in NbOps /\ ~BadArgs(cur.data, cur.n))
        => LET st == uart_irq_state[cur.id]
           IN  /\ CallersRequest(st) \/ HandlersRequest(st)
               /\ ~(st.rxData = "c" /\ st.rxLen > 1)
               /\ ~(st.rxData = "NULL" /\ st.rxLen > 0)
               /\ ~(st.txData = "NULL" /\ st.txLen > 0)

\* C17: with two ports receiving asynchronously, no byte the hardware
\* received on one port is among the bytes the other port's handler
\* pushed into its queue.
C17_NoCrossPortBytes ==
    \A a \in Ids : \A b \in Ids \ {a} :
        \A k \in 1 .. Len(g.pushed[a]) : \A j \in 1 .. Len(g.arrived[b]) :
            g.arrived[b][j] # g.pushed[a][k]

\* C18: in every state, on every port, the request structure's receive
\* buffer and transmit buffer are not both non-null.
C18_OneDirection ==
    \A id \in Ids :
        ~(uart_irq_state[id].rxData # "NULL" /\ uart_irq_state[id].txData # "NULL")

\* C19: once remove has returned for a port with a byte queue, the
\* completion handler never again runs with that port's released
\* descriptor as its context.
C19_NoHandlerAfterRemove ==
    [][\A id \in Ids : HandlerRuns(id) => irq[id].ctx # "stale"]_vars

\* C20: with a transmitter that is found ready again and again and
\* hardware writes that take a byte or report a fault, every blocking
\* write with valid arguments returns; it returns -EIO exactly when a
\* hardware write reported a fault, and makes no hardware write after one.
InWrite == pc \in {"wr_top", "wr_poll", "wr_write"}

C20_WriteTerminates ==
    /\ []((pc = "done" /\ cur.op = "write" /\ ~BadArgs(cur.data, cur.n))
             => (ret = -EIO <=> g.fault))
    /\ [](g.fault => pc = "done")
    /\ (InWrite ~> pc = "done")

C20_Witness ==
    /\ pc = "done"
    /\ cur.op = "write"
    /\ cur.n = MaxWrite
    /\ g.fault
    /\ ret = -EIO
    /\ Len(g.wire) > 0
    /\ Len(g.wire) < cur.n

============================================================================
